---- MODULE Spec2Model ----
(***************************************************************************)
(* Model of the vk-video-api edge function                                 *)
(* (supabase/functions/vk-video-api/index.ts): one request handled by the  *)
(* serve callback, from the incoming request to the Response it returns.   *)
(*                                                                         *)
(* A JavaScript string is a sequence of one-character strings, so that the *)
(* regular expressions, String.includes, String.replace and the template   *)
(* literals of the handler are computed character by character.            *)
(***************************************************************************)
EXTENDS Integers, Sequences, FiniteSets, TLC

VARIABLES
    req,                \* the incoming request: [method, body]
    pc,                 \* position of the handler in its code
    videoUrl,           \* const { videoUrl } = await req.json()
    ownerId,            \* let ownerId: string | null
    videoId,            \* let videoId: string | null
    existingAccessKey,  \* let existingAccessKey: string | null
    vkData,             \* const vkData = await vkResponse.json()
    resp,               \* the Response returned by the handler
    videoIdentifier,    \* let videoIdentifier, the key of the provider lookup
    providerCalls,      \* number of fetch(vkApiUrl) calls issued (history)
    steps               \* the blocks of the handler executed so far (history)

vars == <<req, pc, videoUrl, ownerId, videoId, existingAccessKey, vkData, resp,
          videoIdentifier, providerCalls, steps>>

----------------------------------------------------------------------------
(* Bounds of the model *)

\* number of query parameters appended to a URL head
MaxParams == 3

\* number of records in the provider's items array
MaxRecords == 2

----------------------------------------------------------------------------
(* JavaScript values *)

\* null for a string | null variable: a one-element sequence whose element is
\* not a character, so it differs from every string
Null == <<"null">>

Undefined == [t |-> "undefined"]
JsNull == [t |-> "null"]
JsString(s) == [t |-> "string", s |-> s]
JsNumber(n) == [t |-> "number", n |-> n]
JsBool(b) == [t |-> "boolean", b |-> b]

\* ToBoolean of a tagged value
Truthy(v) ==
    CASE v.t = "string" -> v.s # <<>>
      [] v.t = "number" -> v.n # 0
      [] v.t = "boolean" -> v.b
      [] OTHER -> FALSE

\* ToBoolean of a string | null variable
TruthyStr(s) == s # Null /\ s # <<>>

Min(S) == CHOOSE x \in S : \A y \in S : x <= y
Max(S) == CHOOSE x \in S : \A y \in S : x >= y

----------------------------------------------------------------------------
(* Characters and the pieces of the regular expressions *)

UpperChars == <<"A", "B", "C", "D", "E", "F", "G", "H", "I", "J", "K", "L", "M", "N", "O", "P", "Q", "R", "S", "T", "U", "V", "W", "X", "Y", "Z">>
LowerChars == <<"a", "b", "c", "d", "e", "f", "g", "h", "i", "j", "k", "l", "m", "n", "o", "p", "q", "r", "s", "t", "u", "v", "w", "x", "y", "z">>

\* canonicalisation under the i flag (ASCII letters)
Lower(c) ==
    IF \E i \in 1..Len(UpperChars) : UpperChars[i] = c
    THEN LowerChars[CHOOSE i \in 1..Len(UpperChars) : UpperChars[i] = c]
    ELSE c

\* \d
IsDigit(c) == c \in {"0", "1", "2", "3", "4", "5", "6", "7", "8", "9"}

\* faulty variant of IsHexChar: the class written as \w
IsWordChar(c) ==
    \/ IsDigit(c)
    \/ c = "_"
    \/ \E i \in 1..Len(LowerChars) : LowerChars[i] = Lower(c)

\* [a-f0-9] under the i flag
IsHexChar(c) == IsDigit(c) \/ Lower(c) \in {"a", "b", "c", "d", "e", "f"}

\* a literal of a pattern with the i flag (lit is written in lower case)
MatchLitAt(s, i, lit) ==
    /\ i >= 1
    /\ i + Len(lit) - 1 <= Len(s)
    /\ \A k \in 1..Len(lit) : Lower(s[i + k - 1]) = lit[k]

\* a literal compared case-sensitively (String.includes, patterns without i)
MatchExactAt(s, i, lit) ==
    /\ i >= 1
    /\ i + Len(lit) - 1 <= Len(s)
    /\ \A k \in 1..Len(lit) : s[i + k - 1] = lit[k]

\* String.prototype.includes
Includes(s, lit) == \E i \in 1..Len(s) : MatchExactAt(s, i, lit)

\* \d+ at i, greedy: index of the last digit of the run, i-1 when there is none
RECURSIVE DigitsEnd(_, _)
DigitsEnd(s, i) ==
    IF i <= Len(s) /\ IsDigit(s[i]) THEN DigitsEnd(s, i + 1) ELSE i - 1

\* [a-f0-9]+ at i, greedy: index of the last character of the run
RECURSIVE HexEnd(_, _)
HexEnd(s, i) ==
    IF i <= Len(s) /\ IsHexChar(s[i]) THEN HexEnd(s, i + 1) ELSE i - 1

\* -?\d+ at i: index of its last digit, 0 when it does not match
SignedEnd(s, i) ==
    LET st == IF i <= Len(s) /\ s[i] = "-" THEN i + 1 ELSE i
        e == DigitsEnd(s, st)
    IN  IF e >= st THEN e ELSE 0

\* the result of String.prototype.match: null, or the capture groups
NoMatch == [matched |-> FALSE, g |-> <<>>]
Match(groups) == [matched |-> TRUE, g |-> groups]

StrVideoExtQ == <<"v", "i", "d", "e", "o", "_", "e", "x", "t", ".", "p", "h", "p", "?">>
StrOidEq == <<"o", "i", "d", "=">>
StrIdEq == <<"i", "d", "=">>
StrHashEq == <<"h", "a", "s", "h", "=">>
StrSlashVideo == <<"/", "v", "i", "d", "e", "o">>
StrVideo == <<"v", "i", "d", "e", "o">>
StrVideoQZ == <<"v", "i", "d", "e", "o", "?", "z", "=", "v", "i", "d", "e", "o">>
Hosts == <<<<"v", "k", ".", "c", "o", "m">>, <<"v", "k", ".", "r", "u">>, <<"v", "k", "v", "i", "d", "e", "o", ".", "r", "u">>>>

----------------------------------------------------------------------------
(* The five patterns of the URL parser *)

\* oid=(-?\d+) at p
ExtOidAt(s, p) == MatchLitAt(s, p, StrOidEq) /\ SignedEnd(s, p + Len(StrOidEq)) > 0

\* id=(\d+) at q
ExtIdAt(s, q) ==
    MatchLitAt(s, q, StrIdEq) /\ DigitsEnd(s, q + Len(StrIdEq)) >= q + Len(StrIdEq)

\* where the trailing .*id=(\d+) can match once oid=(-?\d+) matched at p
ExtQs(s, p) ==
    {q \in (SignedEnd(s, p + Len(StrOidEq)) + 1)..Len(s) : ExtIdAt(s, q)}

\* where .*oid=(-?\d+) can match once video_ext\.php\? matched at i
ExtPs(s, i) ==
    {p \in (i + Len(StrVideoExtQ))..Len(s) : ExtOidAt(s, p) /\ ExtQs(s, p) # {}}

\* videoUrl.match(/video_ext\.php\?.*oid=(-?\d+).*id=(\d+)/i): leftmost start,
\* both .* greedy
extMatch(s) ==
    LET starts == {i \in 1..Len(s) :
                      MatchLitAt(s, i, StrVideoExtQ) /\ ExtPs(s, i) # {}}
    IN  IF starts = {} THEN NoMatch
        ELSE LET i == Min(starts)
                 p == Max(ExtPs(s, i))
                 q == Max(ExtQs(s, p))
             IN  Match(<<SubSeq(s, p + Len(StrOidEq), SignedEnd(s, p + Len(StrOidEq))),
                         SubSeq(s, q + Len(StrIdEq), DigitsEnd(s, q + Len(StrIdEq)))>>)

\* (-?\d+)_(\d+) at i: <<end of group 1, end of group 2>>, <<0, 0>> when it
\* does not match
IdPairEnds(s, i) ==
    LET e1 == SignedEnd(s, i)
    IN  IF e1 > 0 /\ e1 + 1 <= Len(s) /\ s[e1 + 1] = "_" /\ DigitsEnd(s, e1 + 2) >= e1 + 2
        THEN <<e1, DigitsEnd(s, e1 + 2)>>
        ELSE <<0, 0>>

IdPairMatch(s, i) ==
    LET ends == IdPairEnds(s, i)
    IN  Match(<<SubSeq(s, i, ends[1]), SubSeq(s, ends[1] + 2, ends[2])>>)

\* index just after (?:vk\.com|vk\.ru|vkvideo\.ru)\/video matched at i, 0 when
\* no alternative matches there
StandardPrefixEnd(s, i) ==
    LET hs == {h \in 1..Len(Hosts) :
                  /\ MatchLitAt(s, i, Hosts[h])
                  /\ MatchLitAt(s, i + Len(Hosts[h]), StrSlashVideo)}
    IN  IF hs = {} THEN 0
        ELSE i + Len(Hosts[Min(hs)]) + Len(StrSlashVideo)

\* videoUrl.match(/(?:vk\.com|vk\.ru|vkvideo\.ru)\/video(-?\d+)_(\d+)/i)
standardMatch(s) ==
    LET starts == {i \in 1..Len(s) :
                      /\ StandardPrefixEnd(s, i) > 0
                      /\ IdPairEnds(s, StandardPrefixEnd(s, i))[1] > 0}
    IN  IF starts = {} THEN NoMatch
        ELSE IdPairMatch(s, StandardPrefixEnd(s, Min(starts)))

\* videoUrl.match(/video\?z=video(-?\d+)_(\d+)/i)
zMatch(s) ==
    LET starts == {i \in 1..Len(s) :
                      /\ MatchLitAt(s, i, StrVideoQZ)
                      /\ IdPairEnds(s, i + Len(StrVideoQZ))[1] > 0}
    IN  IF starts = {} THEN NoMatch
        ELSE IdPairMatch(s, Min(starts) + Len(StrVideoQZ))

\* video-?\d+_\d+_([a-f0-9]+) at i: <<start, end>> of the group, <<0, 0>> when
\* it does not match
AccessKeySpan(s, i) ==
    IF ~MatchLitAt(s, i, StrVideo) THEN <<0, 0>>
    ELSE LET ends == IdPairEnds(s, i + Len(StrVideo))
             k == ends[2] + 2
         IN  IF ends[1] > 0 /\ ends[2] + 1 <= Len(s) /\ s[ends[2] + 1] = "_"
                /\ HexEnd(s, k) >= k
             THEN <<k, HexEnd(s, k)>>
             ELSE <<0, 0>>

\* videoUrl.match(/video-?\d+_\d+_([a-f0-9]+)/i)
accessKeyMatch(s) ==
    LET starts == {i \in 1..Len(s) : AccessKeySpan(s, i)[1] > 0}
    IN  IF starts = {} THEN NoMatch
        ELSE LET sp == AccessKeySpan(s, Min(starts))
             IN  Match(<<SubSeq(s, sp[1], sp[2])>>)

\* [?&]hash=([a-f0-9]+) at i
HashAt(s, i) ==
    /\ i <= Len(s)
    /\ s[i] \in {"?", "&"}
    /\ MatchLitAt(s, i + 1, StrHashEq)
    /\ HexEnd(s, i + 1 + Len(StrHashEq)) >= i + 1 + Len(StrHashEq)

\* videoUrl.match(/[?&]hash=([a-f0-9]+)/i)
hashMatch(s) ==
    LET starts == {i \in 1..Len(s) : HashAt(s, i)}
    IN  IF starts = {} THEN NoMatch
        ELSE LET k == Min(starts) + 1 + Len(StrHashEq)
             IN  Match(<<SubSeq(s, k, HexEnd(s, k))>>)

----------------------------------------------------------------------------
(* URL parsing, lines 43-89: each step maps the three variables            *)
(* [ownerId, videoId, existingAccessKey] to their values after the step    *)

Unparsed == [ownerId |-> Null, videoId |-> Null, existingAccessKey |-> Null]

\* lines 47-57
ExtStep(st, url) ==
    LET m == extMatch(url)
        h == hashMatch(url)
    IN  IF m.matched
        THEN [ownerId |-> m.g[1],
              videoId |-> m.g[2],
              existingAccessKey |-> IF h.matched THEN h.g[1] ELSE st.existingAccessKey]
        ELSE st

\* faulty variant of StandardStep: the guard on missing identifiers is dropped
StandardStepUnguarded(st, url) ==
    LET m == standardMatch(url)
    IN  IF m.matched
        THEN [st EXCEPT !.ownerId = m.g[1], !.videoId = m.g[2]]
        ELSE st

\* lines 59-66
StandardStep(st, url) ==
    LET m == standardMatch(url)
    IN  IF (~TruthyStr(st.ownerId) \/ ~TruthyStr(st.videoId)) /\ m.matched
        THEN [st EXCEPT !.ownerId = m.g[1], !.videoId = m.g[2]]
        ELSE st

\* lines 68-75
ZStep(st, url) ==
    LET m == zMatch(url)
    IN  IF (~TruthyStr(st.ownerId) \/ ~TruthyStr(st.videoId)) /\ m.matched
        THEN [st EXCEPT !.ownerId = m.g[1], !.videoId = m.g[2]]
        ELSE st

\* faulty variant of AccessKeyStep: the token is taken only when no key is known yet
AccessKeyStepNoOverride(st, url) ==
    LET m == accessKeyMatch(url)
    IN  IF ~TruthyStr(st.existingAccessKey) /\ m.matched
        THEN [st EXCEPT !.existingAccessKey = m.g[1]]
        ELSE st

\* lines 77-81
AccessKeyStep(st, url) ==
    LET m == accessKeyMatch(url)
    IN  IF m.matched THEN [st EXCEPT !.existingAccessKey = m.g[1]] ELSE st

\* lines 83-89
HashParamStep(st, url) ==
    LET m == hashMatch(url)
    IN  IF ~TruthyStr(st.existingAccessKey) /\ m.matched
        THEN [st EXCEPT !.existingAccessKey = m.g[1]]
        ELSE st

\* lines 43-89 as a whole
ResolveUrl(url) ==
    HashParamStep(AccessKeyStep(ZStep(StandardStep(ExtStep(Unparsed, url), url), url), url), url)

----------------------------------------------------------------------------
(* The requests the model feeds to the handler *)

UrlHeads == {
    <<"h", "t", "t", "p", "s", ":", "/", "/", "v", "k", ".", "c", "o", "m", "/", "v", "i", "d", "e", "o", "_", "e", "x", "t", ".", "p", "h", "p", "?", "o", "i", "d", "=", "-", "1", "&", "i", "d", "=", "2">>,
    <<"h", "t", "t", "p", "s", ":", "/", "/", "v", "k", ".", "c", "o", "m", "/", "v", "i", "d", "e", "o", "_", "e", "x", "t", ".", "p", "h", "p">>,
    <<"H", "T", "T", "P", "S", ":", "/", "/", "V", "K", ".", "C", "O", "M", "/", "V", "I", "D", "E", "O", "_", "E", "X", "T", ".", "P", "H", "P", "?", "O", "I", "D", "=", "-", "1", "&", "I", "D", "=", "2">>,
    <<"h", "t", "t", "p", "s", ":", "/", "/", "v", "k", ".", "c", "o", "m", "/", "v", "i", "d", "e", "o", "-", "1", "_", "2">>,
    <<"h", "t", "t", "p", "s", ":", "/", "/", "v", "k", "v", "i", "d", "e", "o", ".", "r", "u", "/", "v", "i", "d", "e", "o", "3", "_", "4", "_", "b", "7", "g">>,
    <<"h", "t", "t", "p", "s", ":", "/", "/", "v", "k", ".", "c", "o", "m", "/", "v", "i", "d", "e", "o", "?", "z", "=", "v", "i", "d", "e", "o", "-", "9", "_", "1">>,
    <<"h", "t", "t", "p", "s", ":", "/", "/", "e", "x", "a", "m", "p", "l", "e", ".", "c", "o", "m", "/", "w", "a", "t", "c", "h">> }

UrlParams == {
    <<"o", "i", "d", "=", "-", "1">>,
    <<"i", "d", "=", "2">>,
    <<"v", "i", "d", "=", "7">>,
    <<"h", "a", "s", "h", "=", "c", "0">>,
    <<"H", "A", "S", "H", "=", "E", "1">>,
    <<"u", "=", "v", "k", ".", "r", "u", "/", "v", "i", "d", "e", "o", "5", "_", "6", "_", "F", "a">> }

\* sequences over S of length at most n
RECURSIVE SeqsUpTo(_, _)
SeqsUpTo(S, n) ==
    IF n = 0 THEN {<<>>}
    ELSE LET shorter == SeqsUpTo(S, n - 1)
         IN  shorter \cup {Append(q, x) : q \in shorter, x \in S}

\* head ? p1 & p2 ... (the first separator is & when the head has a query)
RECURSIVE BuildUrl(_, _)
BuildUrl(head, params) ==
    IF params = <<>> THEN head
    ELSE BuildUrl(head \o (IF Includes(head, <<"?">>) THEN <<"&">> ELSE <<"?">>) \o Head(params),
                  Tail(params))

Urls == {BuildUrl(h, ps) : h \in UrlHeads, ps \in SeqsUpTo(UrlParams, MaxParams)}

\* what req.json() finds in the request body
Bodies ==
    {[kind |-> "malformed", videoUrl |-> Undefined],
     [kind |-> "null", videoUrl |-> Undefined]}
    \cup {[kind |-> "value", videoUrl |-> v] :
            v \in {Undefined, JsNull, JsString(<<>>), JsNumber(0), JsBool(FALSE),
                   JsNumber(7)}}
    \cup {[kind |-> "value", videoUrl |-> JsString(u)] : u \in Urls}

Requests == {[method |-> m, body |-> b] : m \in {"OPTIONS", "POST"}, b \in Bodies}

----------------------------------------------------------------------------
(* What the metadata provider can answer *)

PlayerUrls == {
    <<"h", "t", "t", "p", ":", "/", "/", "v", "k", ".", "c", "o", "m", "/", "p", "l", "a", "y", "e", "r", ".", "h", "t", "m", "l">>,
    <<"h", "t", "t", "p", "s", ":", "/", "/", "v", "k", ".", "c", "o", "m", "/", "p", "?", "h", "d", "=", "1">>,
    <<"h", "t", "t", "p", ":", "/", "/", "v", "k", ".", "c", "o", "m", "/", "p", "?", "a", "u", "t", "o", "p", "l", "a", "y", "=", "1">>,
    <<"h", "t", "t", "p", "s", ":", "/", "/", "v", "k", ".", "c", "o", "m", "/", "p", "?", "h", "d", "=", "1", "&", "a", "u", "t", "o", "p", "l", "a", "y", "=", "1">> }

RecordKey == <<"9", "f">>

\* the records a video.get answer can start with
Records ==
    {[player |-> p, access_key |-> k, title |-> JsString(<<"c", "l", "i", "p">>), duration |-> JsNumber(60)] :
        p \in {Undefined, JsString(<<>>)} \cup {JsString(u) : u \in PlayerUrls},
        k \in {Undefined, JsString(RecordKey)}}

\* a record that follows the first one in a longer answer
OtherRecord ==
    [player |-> JsString(<<"h", "t", "t", "p", "s", ":", "/", "/", "v", "k", ".", "c", "o", "m", "/", "o", "t", "h", "e", "r">>), access_key |-> JsString(<<"e", "e">>),
     title |-> Undefined, duration |-> Undefined]

RECURSIVE Repeat(_, _)
Repeat(x, n) == IF n = 0 THEN <<>> ELSE <<x>> \o Repeat(x, n - 1)

ItemLists ==
    {<<>>} \cup {<<r>> \o Repeat(OtherRecord, n - 1) : r \in Records, n \in 1..MaxRecords}

ProviderErrors ==
    {[error_code |-> JsNumber(15), error_msg |-> JsString(<<"A", "c", "c", "e", "s", "s", " ", "d", "e", "n", "i", "e", "d">>)],
     [error_code |-> JsNumber(6), error_msg |-> Undefined]}

\* the JSON document of the provider's answer
VkDatas ==
    {[t |-> "null", error |-> Undefined, response |-> Undefined]}
    \cup {[t |-> "object", error |-> e, response |-> Undefined] : e \in ProviderErrors}
    \cup {[t |-> "object", error |-> Undefined, response |-> Undefined]}
    \cup {[t |-> "object", error |-> Undefined, response |-> [t |-> "object", items |-> l]] :
            l \in ItemLists}

\* how await fetch(vkApiUrl) and await vkResponse.json() can end
ProviderOutcomes ==
    {[kind |-> "fetch_throws", data |-> Undefined],
     [kind |-> "json_throws", data |-> Undefined]}
    \cup {[kind |-> "data", data |-> d] : d \in VkDatas}

----------------------------------------------------------------------------
(* Responses *)

MsgMissingVideoUrl == <<"M", "i", "s", "s", "i", "n", "g", " ", "v", "i", "d", "e", "o", "U", "r", "l", " ", "p", "a", "r", "a", "m", "e", "t", "e", "r">>
MsgInvalidUrl == <<"I", "n", "v", "a", "l", "i", "d", " ", "V", "K", " ", "v", "i", "d", "e", "o", " ", "U", "R", "L", " ", "f", "o", "r", "m", "a", "t">>
MsgNotConfigured == <<"V", "K", " ", "A", "P", "I", " ", "n", "o", "t", " ", "c", "o", "n", "f", "i", "g", "u", "r", "e", "d">>
MsgVkApiError == <<"V", "K", " ", "A", "P", "I", " ", "e", "r", "r", "o", "r">>
MsgHint == <<"F", "o", "r", " ", "\"", "A", "n", "y", "o", "n", "e", " ", "w", "i", "t", "h", " ", "t", "h", "e", " ", "l", "i", "n", "k", "\"", " ", "v", "i", "d", "e", "o", "s", ",", " ", "m", "a", "k", "e", " ", "s", "u", "r", "e", " ", "t", "o", " ", "i", "n", "c", "l", "u", "d", "e", " ", "t", "h", "e", " ", "a", "c", "c", "e", "s", "s", "_", "k", "e", "y", " ", "o", "r", " ", "h", "a", "s", "h", " ", "i", "n", " ", "t", "h", "e", " ", "U", "R", "L">>
MsgNotFound == <<"V", "i", "d", "e", "o", " ", "n", "o", "t", " ", "f", "o", "u", "n", "d", " ", "o", "r", " ", "n", "o", "t", " ", "a", "c", "c", "e", "s", "s", "i", "b", "l", "e">>
MsgInternal == <<"I", "n", "t", "e", "r", "n", "a", "l", " ", "s", "e", "r", "v", "e", "r", " ", "e", "r", "r", "o", "r">>

NoResponse == [status |-> 0, body |-> JsNull]

\* lines 20-22
PreflightResponse == [status |-> 200, body |-> JsNull]

\* lines 28-31
MissingInputResponse ==
    [status |-> 400, body |-> [error |-> MsgMissingVideoUrl]]

\* lines 93-96
InvalidUrlResponse(url) ==
    [status |-> 400, body |-> [error |-> MsgInvalidUrl, originalUrl |-> url]]

\* lines 105-108
NotConfiguredResponse ==
    [status |-> 500, body |-> [error |-> MsgNotConfigured]]

\* lines 230-236
InternalErrorResponse(e) ==
    [status |-> 500, body |-> [error |-> MsgInternal, details |-> e]]

\* lines 148-155
ProviderRejectedResponse(err) ==
    [status |-> 400,
     body |-> [error |-> IF Truthy(err.error_msg) THEN err.error_msg.s ELSE MsgVkApiError,
               errorCode |-> err.error_code,
               hint |-> MsgHint]]

\* faulty variant of VideoNotFoundResponse: the block of lines 28-31 pasted unchanged
VideoNotFoundPasted == MissingInputResponse

\* lines 179-182
VideoNotFoundResponse ==
    [status |-> 404, body |-> [error |-> MsgNotFound]]

\* the template literal of lines 132, 165 and 207
FallbackEmbedUrl(o, v, k) ==
    <<"h", "t", "t", "p", "s", ":", "/", "/", "v", "k", ".", "c", "o", "m", "/", "v", "i", "d", "e", "o", "_", "e", "x", "t", ".", "p", "h", "p", "?", "o", "i", "d", "=">> \o o \o <<"&", "i", "d", "=">> \o v \o <<"&", "h", "a", "s", "h", "=">> \o k
        \o <<"&", "h", "d", "=", "2", "&", "a", "u", "t", "o", "p", "l", "a", "y", "=", "0">>

\* the template literal of line 210
KeylessEmbedUrl(o, v) ==
    <<"h", "t", "t", "p", "s", ":", "/", "/", "v", "k", ".", "c", "o", "m", "/", "v", "i", "d", "e", "o", "_", "e", "x", "t", ".", "p", "h", "p", "?", "o", "i", "d", "=">> \o o \o <<"&", "i", "d", "=">> \o v \o <<"&", "h", "d", "=", "2", "&", "a", "u", "t", "o", "p", "l", "a", "y", "=", "0">>

\* lines 135-145 and 166-176
FallbackResponse(o, v, k) ==
    [status |-> 200,
     body |-> [success |-> TRUE, embedUrl |-> FallbackEmbedUrl(o, v, k), ownerId |-> o,
               videoId |-> v, accessKey |-> k, source |-> "fallback"]]

\* embedUrl.replace(/^http:/, 'https:')
EnsureHttps(s) ==
    IF MatchExactAt(s, 1, <<"h", "t", "t", "p", ":">>) THEN <<"h", "t", "t", "p", "s", ":">> \o SubSeq(s, 6, Len(s)) ELSE s

\* faulty variant of AddHd: the separator is always &
AddHdAmpersand(s) ==
    IF ~Includes(s, <<"h", "d", "=">>) THEN s \o <<"&", "h", "d", "=", "2">> ELSE s

\* lines 199-201
AddHd(s) ==
    IF ~Includes(s, <<"h", "d", "=">>)
    THEN s \o (IF Includes(s, <<"?">>) THEN <<"&">> ELSE <<"?">>) \o <<"h", "d", "=", "2">>
    ELSE s

\* lines 202-204
AddAutoplay(s) ==
    IF ~Includes(s, <<"a", "u", "t", "o", "p", "l", "a", "y", "=">>) THEN s \o <<"&", "a", "u", "t", "o", "p", "l", "a", "y", "=", "0">> ELSE s

\* lines 195-204
PlayerEmbedUrl(player) == AddAutoplay(AddHd(EnsureHttps(player)))

\* x || null
OrNull(v) == IF Truthy(v) THEN v ELSE JsNull

\* line 188: video.access_key || existingAccessKey
EffectiveAccessKey(video, k) ==
    IF Truthy(video.access_key) THEN video.access_key.s ELSE k

\* lines 191-211
EmbedUrlFor(video, o, v, k) ==
    IF Truthy(video.player) THEN PlayerEmbedUrl(video.player.s)
    ELSE IF TruthyStr(EffectiveAccessKey(video, k))
         THEN FallbackEmbedUrl(o, v, EffectiveAccessKey(video, k))
         ELSE KeylessEmbedUrl(o, v)

\* lines 185-228
VkApiResponse(video, o, v, k) ==
    [status |-> 200,
     body |-> [success |-> TRUE,
               embedUrl |-> EmbedUrlFor(video, o, v, k),
               ownerId |-> o,
               videoId |-> v,
               accessKey |-> IF TruthyStr(EffectiveAccessKey(video, k))
                             THEN EffectiveAccessKey(video, k) ELSE Null,
               title |-> OrNull(video.title),
               duration |-> OrNull(video.duration),
               playerUrl |-> OrNull(video.player),
               source |-> "vk_api"]]

\* line 158: vkData.response?.items || []
VideosOf(d) == IF d.response.t = "object" THEN d.response.items ELSE <<>>

\* faulty variant of Synthesize: zero records always end in VideoNotFound
SynthesizeNoEmptyFallback(d, o, v, k) ==
    IF d.t = "null" THEN InternalErrorResponse("TypeError")
    ELSE IF d.error # Undefined
         THEN IF TruthyStr(k) THEN FallbackResponse(o, v, k)
              ELSE ProviderRejectedResponse(d.error)
         ELSE IF Len(VideosOf(d)) = 0
              THEN VideoNotFoundResponse
              ELSE VkApiResponse(VideosOf(d)[1], o, v, k)

\* faulty variant of Synthesize: a provider error always ends in the fallback
SynthesizeAlwaysFallback(d, o, v, k) ==
    IF d.t = "null" THEN InternalErrorResponse("TypeError")
    ELSE IF d.error # Undefined
         THEN FallbackResponse(o, v, k)
         ELSE IF Len(VideosOf(d)) = 0
              THEN IF TruthyStr(k) THEN FallbackResponse(o, v, k)
                   ELSE VideoNotFoundResponse
              ELSE VkApiResponse(VideosOf(d)[1], o, v, k)

\* lines 127-228: the response decided from the provider's answer
Synthesize(d, o, v, k) ==
    IF d.t = "null" THEN InternalErrorResponse("TypeError")
    ELSE IF d.error # Undefined
         THEN IF TruthyStr(k) THEN FallbackResponse(o, v, k)
              ELSE ProviderRejectedResponse(d.error)
         ELSE IF Len(VideosOf(d)) = 0
              THEN IF TruthyStr(k) THEN FallbackResponse(o, v, k)
                   ELSE VideoNotFoundResponse
              ELSE VkApiResponse(VideosOf(d)[1], o, v, k)

\* lines 113-116
VideoIdentifier(o, v, k) ==
    o \o <<"_">> \o v \o (IF TruthyStr(k) THEN <<"_">> \o k ELSE <<>>)

----------------------------------------------------------------------------
(* The handler *)

Init ==
    /\ req \in Requests
    /\ pc = "start"
    /\ videoUrl = Undefined
    /\ ownerId = Null
    /\ videoId = Null
    /\ existingAccessKey = Null
    /\ vkData = Undefined
    /\ resp = NoResponse
    /\ videoIdentifier = Null
    /\ providerCalls = 0
    /\ steps = <<>>

Return(r) == resp' = r /\ pc' = "done"

\* lines 20-22: a CORS preflight request is answered at once
Preflight ==
    /\ pc = "start"
    /\ req.method = "OPTIONS"
    /\ Return(PreflightResponse)
    /\ UNCHANGED <<req, videoUrl, ownerId, videoId, existingAccessKey, vkData,
                   videoIdentifier, providerCalls, steps>>

\* line 25: const { videoUrl } = await req.json()
ReadBody ==
    /\ pc = "start"
    /\ req.method # "OPTIONS"
    /\ steps' = Append(steps, "json")
    /\ IF req.body.kind = "malformed"
       THEN Return(InternalErrorResponse("SyntaxError")) /\ UNCHANGED videoUrl
       ELSE IF req.body.kind = "null"
            THEN Return(InternalErrorResponse("TypeError")) /\ UNCHANGED videoUrl
            ELSE videoUrl' = req.body.videoUrl /\ pc' = "check_input" /\ UNCHANGED resp
    /\ UNCHANGED <<req, ownerId, videoId, existingAccessKey, vkData, videoIdentifier,
                   providerCalls>>

\* lines 27-32
CheckInput ==
    /\ pc = "check_input"
    /\ IF ~Truthy(videoUrl)
       THEN Return(MissingInputResponse)
       ELSE pc' = "parse" /\ UNCHANGED resp
    /\ UNCHANGED <<req, videoUrl, ownerId, videoId, existingAccessKey, vkData,
                   videoIdentifier, providerCalls, steps>>

\* lines 43-97: a videoUrl that is no string has no match method
ParseUrl ==
    /\ pc = "parse"
    /\ steps' = Append(steps, "match")
    /\ IF videoUrl.t # "string"
       THEN /\ Return(InternalErrorResponse("TypeError"))
            /\ UNCHANGED <<ownerId, videoId, existingAccessKey>>
       ELSE LET st == ResolveUrl(videoUrl.s)
            IN  /\ ownerId' = st.ownerId
                /\ videoId' = st.videoId
                /\ existingAccessKey' = st.existingAccessKey
                /\ IF ~TruthyStr(st.ownerId) \/ ~TruthyStr(st.videoId)
                   THEN Return(InvalidUrlResponse(videoUrl.s))
                   ELSE pc' = "config" /\ UNCHANGED resp
    /\ UNCHANGED <<req, videoUrl, vkData, videoIdentifier, providerCalls>>

\* lines 101-109: Deno.env.get('VK_SERVICE_ACCESS_KEY')
CheckConfig ==
    /\ pc = "config"
    /\ steps' = Append(steps, "config")
    /\ \E configured \in BOOLEAN :
          IF ~configured
          THEN Return(NotConfiguredResponse)
          ELSE pc' = "call" /\ UNCHANGED resp
    /\ UNCHANGED <<req, videoUrl, ownerId, videoId, existingAccessKey, vkData,
                   videoIdentifier, providerCalls>>

\* faulty variant of AfterProvider: a failed call is issued again
AfterProviderRetry(o) == IF o.kind = "data" THEN "decide" ELSE "call"

\* where the handler goes once the provider call has settled with outcome o
AfterProvider(o) == IF o.kind = "data" THEN "decide" ELSE "done"

\* lines 111-122: the lookup key is built and fetch(vkApiUrl) is issued
CallProvider ==
    /\ pc = "call"
    /\ videoIdentifier' = VideoIdentifier(ownerId, videoId, existingAccessKey)
    /\ providerCalls' = providerCalls + 1
    /\ steps' = Append(steps, "fetch")
    /\ pc' = "await"
    /\ UNCHANGED <<req, videoUrl, ownerId, videoId, existingAccessKey, vkData, resp>>

\* lines 122-123: await fetch(...) and await vkResponse.json() settle
ProviderSettles ==
    /\ pc = "await"
    /\ \E o \in ProviderOutcomes :
          /\ pc' = AfterProvider(o)
          /\ IF o.kind = "data"
             THEN vkData' = o.data /\ UNCHANGED resp
             ELSE /\ resp' = InternalErrorResponse(IF o.kind = "fetch_throws"
                                                   THEN "TypeError" ELSE "SyntaxError")
                  /\ UNCHANGED vkData
    /\ UNCHANGED <<req, videoUrl, ownerId, videoId, existingAccessKey, videoIdentifier,
                   providerCalls, steps>>

\* lines 127-228
Decide ==
    /\ pc = "decide"
    /\ Return(Synthesize(vkData, ownerId, videoId, existingAccessKey))
    /\ UNCHANGED <<req, videoUrl, ownerId, videoId, existingAccessKey, vkData,
                   videoIdentifier, providerCalls, steps>>

Next ==
    \/ Preflight
    \/ ReadBody
    \/ CheckInput
    \/ ParseUrl
    \/ CheckConfig
    \/ CallProvider
    \/ ProviderSettles
    \/ Decide

Spec == Init /\ [][Next]_vars

----------------------------------------------------------------------------
(* Vocabulary of the properties *)

Done == pc = "done"

\* the state right after ParseUrl has run on a string
AfterParse == videoUrl.t = "string" /\ steps = <<"json", "match">>

Url == videoUrl.s

IsError(r, status, msg) ==
    r.status = status /\ "error" \in DOMAIN r.body /\ r.body.error = msg

IsMissingInput(r) == IsError(r, 400, MsgMissingVideoUrl)
IsInvalidUrlFormat(r) == IsError(r, 400, MsgInvalidUrl)
IsVideoNotFound(r) == IsError(r, 404, MsgNotFound)
IsProviderRejected(r) == r.status = 400 /\ "hint" \in DOMAIN r.body
IsSuccess(r) == r.status = 200 /\ "success" \in DOMAIN r.body

\* the provider answered and the handler has decided on it
Decided == Done /\ vkData.t = "object"
ErrorOutcome == Decided /\ vkData.error # Undefined
ZeroRecords ==
    /\ Decided
    /\ vkData.error = Undefined
    /\ (vkData.response = Undefined \/ vkData.response.items = <<>>)
SomeRecords ==
    /\ Decided
    /\ vkData.error = Undefined
    /\ vkData.response # Undefined
    /\ vkData.response.items # <<>>

----------------------------------------------------------------------------
\* C1: when the lookup ends in an error outcome or in zero records and a key K
\* was extracted from the URL, the response is a success with source
\* "fallback", accessKey K and embedUrl
\* https://vk.com/video_ext.php?oid=<ownerId>&id=<videoId>&hash=K&hd=2&autoplay=0
C1_FallbackWithKnownKey ==
    ((ErrorOutcome \/ ZeroRecords) /\ existingAccessKey # Null) =>
        /\ IsSuccess(resp)
        /\ resp.body.source = "fallback"
        /\ resp.body.accessKey = existingAccessKey
        /\ resp.body.ownerId = ownerId
        /\ resp.body.videoId = videoId
        /\ resp.body.embedUrl =
              <<"h", "t", "t", "p", "s", ":", "/", "/", "v", "k", ".", "c", "o", "m", "/", "v", "i", "d", "e", "o", "_", "e", "x", "t", ".", "p", "h", "p", "?", "o", "i", "d", "=">> \o ownerId \o <<"&", "i", "d", "=">> \o videoId
                \o <<"&", "h", "a", "s", "h", "=">> \o existingAccessKey \o <<"&", "h", "d", "=", "2", "&", "a", "u", "t", "o", "p", "l", "a", "y", "=", "0">>
        /\ (ownerId = <<"-", "1">> /\ videoId = <<"2">> /\ existingAccessKey = <<"c", "0">>
              => resp.body.embedUrl =
                    <<"h", "t", "t", "p", "s", ":", "/", "/", "v", "k", ".", "c", "o", "m", "/", "v", "i", "d", "e", "o", "_", "e", "x", "t", ".", "p", "h", "p", "?", "o", "i", "d", "=", "-", "1", "&", "i", "d", "=", "2", "&", "h", "a", "s", "h", "=", "c", "0", "&", "h", "d", "=", "2", "&", "a", "u", "t", "o", "p", "l", "a", "y", "=", "0">>)

C1_Witness ==
    /\ ZeroRecords
    /\ existingAccessKey = <<"c", "0">>
    /\ resp.body.embedUrl = <<"h", "t", "t", "p", "s", ":", "/", "/", "v", "k", ".", "c", "o", "m", "/", "v", "i", "d", "e", "o", "_", "e", "x", "t", ".", "p", "h", "p", "?", "o", "i", "d", "=", "-", "1", "&", "i", "d", "=", "2", "&", "h", "a", "s", "h", "=", "c", "0", "&", "h", "d", "=", "2", "&", "a", "u", "t", "o", "p", "l", "a", "y", "=", "0">>

\* C2: without a key extracted from the URL, an error outcome ends in 400 with
\* the provider's code, its message and a hint, and zero records end in 404; no
\* embed URL and no success response is produced
C2_FailureWithoutKey ==
    /\ (ErrorOutcome /\ existingAccessKey = Null) =>
          /\ resp.status = 400
          /\ DOMAIN resp.body = {"error", "errorCode", "hint"}
          /\ resp.body.errorCode = vkData.error.error_code
          /\ (vkData.error.error_msg # Undefined
                => resp.body.error = vkData.error.error_msg.s)
          /\ resp.body.hint # <<>>
    /\ (ZeroRecords /\ existingAccessKey = Null) =>
          /\ resp.status = 404
          /\ DOMAIN resp.body = {"error"}
          /\ resp.body.error = MsgNotFound

C2_Witness ==
    /\ ErrorOutcome
    /\ existingAccessKey = Null
    /\ resp.status = 400
    /\ resp.body.error = <<"A", "c", "c", "e", "s", "s", " ", "d", "e", "n", "i", "e", "d">>

\* C3: the access key is the hex token of video<int>_<int>_<hex> when the URL
\* holds one, whatever hash= parameter it also holds; otherwise it is the
\* value of the first hash=<hex> parameter; otherwise it is absent
C3_AccessKeyPriority ==
    AfterParse =>
        /\ existingAccessKey =
              IF accessKeyMatch(Url).matched THEN accessKeyMatch(Url).g[1]
              ELSE IF hashMatch(Url).matched THEN hashMatch(Url).g[1]
              ELSE Null
        /\ (Url = <<"h", "t", "t", "p", "s", ":", "/", "/", "v", "k", ".", "c", "o", "m", "/", "v", "i", "d", "e", "o", "_", "e", "x", "t", ".", "p", "h", "p", "?", "o", "i", "d", "=", "-", "1", "&", "i", "d", "=", "2", "&", "h", "a", "s", "h", "=", "c", "0", "&", "u", "=", "v", "k", ".", "r", "u", "/", "v", "i", "d", "e", "o", "5", "_", "6", "_", "F", "a">>
              => existingAccessKey = <<"F", "a">>)
        /\ (Url = <<"h", "t", "t", "p", "s", ":", "/", "/", "v", "k", ".", "c", "o", "m", "/", "v", "i", "d", "e", "o", "_", "e", "x", "t", ".", "p", "h", "p", "?", "o", "i", "d", "=", "-", "1", "&", "i", "d", "=", "2", "&", "h", "a", "s", "h", "=", "c", "0">>
              => existingAccessKey = <<"c", "0">>)
        /\ (Url = <<"h", "t", "t", "p", "s", ":", "/", "/", "v", "k", ".", "c", "o", "m", "/", "v", "i", "d", "e", "o", "-", "1", "_", "2", "?", "h", "a", "s", "h", "=", "c", "0">> => existingAccessKey = <<"c", "0">>)
        /\ (Url = <<"h", "t", "t", "p", "s", ":", "/", "/", "v", "k", ".", "c", "o", "m", "/", "v", "i", "d", "e", "o", "-", "1", "_", "2">> => existingAccessKey = Null)

C3_Witness ==
    /\ AfterParse
    /\ extMatch(Url).matched
    /\ hashMatch(Url).matched
    /\ accessKeyMatch(Url).matched
    /\ hashMatch(Url).g[1] # accessKeyMatch(Url).g[1]
    /\ existingAccessKey = accessKeyMatch(Url).g[1]

----------------------------------------------------------------------------
(* Query parameters of a URL, read the way a URL is read: name=value pairs *)
(* that start after ? or & and end before the next &                       *)

\* the value of the parameter `name` that starts at i, Null when none does
ParamValueAt(s, i, name) ==
    LET v == i + Len(name) + 1
        ends == {e \in (v - 1)..Len(s) :
                    /\ \A k \in v..e : s[k] # "&"
                    /\ (e = Len(s) \/ s[e + 1] = "&")}
    IN  IF i >= 2 /\ s[i - 1] \in {"?", "&"} /\ MatchLitAt(s, i, name \o <<"=">>)
        THEN SubSeq(s, v, Min(ends))
        ELSE Null

ParamValues(s, name) ==
    {ParamValueAt(s, i, name) : i \in 1..Len(s)} \ {Null}

IsInt(v) == v # <<>> /\ \A k \in 1..Len(v) : IsDigit(v[k])
IsSignedInt(v) == IsInt(v) \/ (v # <<>> /\ v[1] = "-" /\ IsInt(Tail(v)))

IsExtUrl(s) == \E i \in 1..Len(s) : MatchLitAt(s, i, StrVideoExtQ)

\* C4: a video_ext.php URL whose query carries oid=<signed int> and id=<int>,
\* in either order and anywhere among other parameters, resolves with ownerId
\* taken from oid and videoId taken from id
C4_EitherOrder ==
    (/\ AfterParse
     /\ IsExtUrl(Url)
     /\ \E v \in ParamValues(Url, <<"o", "i", "d">>) : IsSignedInt(v)
     /\ \E v \in ParamValues(Url, <<"i", "d">>) : IsInt(v))
    => /\ pc = "config"
       /\ ownerId \in ParamValues(Url, <<"o", "i", "d">>)
       /\ videoId \in ParamValues(Url, <<"i", "d">>)

\* C5: ownerId and videoId come from the first pattern that matches, in the
\* order extension-embed, canonical path, query-redirect; later patterns never
\* overwrite them; the request fails with 400 InvalidUrlFormat carrying the
\* input exactly when none of the three matches
C5_FirstPatternWins ==
    AfterParse =>
        LET ids == IF extMatch(Url).matched THEN extMatch(Url).g
                   ELSE IF standardMatch(Url).matched THEN standardMatch(Url).g
                   ELSE IF zMatch(Url).matched THEN zMatch(Url).g
                   ELSE <<Null, Null>>
        IN  /\ ownerId = ids[1]
            /\ videoId = ids[2]
            /\ IF ids = <<Null, Null>>
               THEN /\ Done
                    /\ IsInvalidUrlFormat(resp)
                    /\ resp.body.originalUrl = Url
               ELSE pc = "config" /\ resp = NoResponse
            /\ (Url = <<"h", "t", "t", "p", "s", ":", "/", "/", "v", "k", ".", "c", "o", "m", "/", "v", "i", "d", "e", "o", "?", "z", "=", "v", "i", "d", "e", "o", "-", "9", "_", "1">>
                  => ownerId = <<"-", "9">> /\ videoId = <<"1">>)
            /\ (Url = <<"h", "t", "t", "p", "s", ":", "/", "/", "v", "k", ".", "c", "o", "m", "/", "v", "i", "d", "e", "o", "-", "1", "_", "2">>
                  => ownerId = <<"-", "1">> /\ videoId = <<"2">>)
            /\ (Url = <<"h", "t", "t", "p", "s", ":", "/", "/", "v", "k", ".", "c", "o", "m", "/", "v", "i", "d", "e", "o", "?", "z", "=", "v", "i", "d", "e", "o", "-", "9", "_", "1", "&", "u", "=", "v", "k", ".", "r", "u", "/", "v", "i", "d", "e", "o", "5", "_", "6", "_", "F", "a">>
                  => ownerId = <<"5">> /\ videoId = <<"6">>)
            /\ (Url = <<"h", "t", "t", "p", "s", ":", "/", "/", "v", "k", ".", "c", "o", "m", "/", "v", "i", "d", "e", "o", "_", "e", "x", "t", ".", "p", "h", "p", "?", "o", "i", "d", "=", "-", "1", "&", "i", "d", "=", "2", "&", "u", "=", "v", "k", ".", "r", "u", "/", "v", "i", "d", "e", "o", "5", "_", "6", "_", "F", "a">>
                  => ownerId = <<"-", "1">> /\ videoId = <<"2">>)
            /\ (Url = <<"h", "t", "t", "p", "s", ":", "/", "/", "e", "x", "a", "m", "p", "l", "e", ".", "c", "o", "m", "/", "w", "a", "t", "c", "h", "?", "i", "d", "=", "2">> => IsInvalidUrlFormat(resp))
            /\ (Url = <<"h", "t", "t", "p", "s", ":", "/", "/", "e", "x", "a", "m", "p", "l", "e", ".", "c", "o", "m", "/", "w", "a", "t", "c", "h", "?", "h", "a", "s", "h", "=", "c", "0">>
                  => IsInvalidUrlFormat(resp) /\ existingAccessKey = <<"c", "0">>)

C5_Witness ==
    /\ AfterParse
    /\ extMatch(Url).matched
    /\ standardMatch(Url).matched
    /\ extMatch(Url).g # standardMatch(Url).g
    /\ ownerId = extMatch(Url).g[1]
    /\ videoId = extMatch(Url).g[2]

LowerHex == {"0", "1", "2", "3", "4", "5", "6", "7", "8", "9", "a", "b", "c", "d", "e", "f"}
UpperHex == {"A", "B", "C", "D", "E", "F"}

\* C6 as claimed: after a successful resolution ownerId and videoId are
\* non-empty and the access key, when present, is made of [a-f0-9] only
C6_LowercaseHexKey ==
    (AfterParse /\ pc = "config") =>
        /\ ownerId # Null /\ ownerId # <<>>
        /\ videoId # Null /\ videoId # <<>>
        /\ (existingAccessKey # Null =>
              /\ existingAccessKey # <<>>
              /\ \A k \in 1..Len(existingAccessKey) : existingAccessKey[k] \in LowerHex)

\* C6 as amended: after a successful resolution ownerId and videoId are
\* non-empty and the access key, when present, is a non-empty run of
\* hexadecimal digits of either case ([a-fA-F0-9]+)
C6_HexKeyEitherCase ==
    (AfterParse /\ pc = "config") =>
        /\ ownerId # Null /\ ownerId # <<>>
        /\ videoId # Null /\ videoId # <<>>
        /\ (existingAccessKey # Null =>
              /\ existingAccessKey # <<>>
              /\ \A k \in 1..Len(existingAccessKey) :
                    existingAccessKey[k] \in LowerHex \cup UpperHex)

C6_Witness ==
    /\ AfterParse
    /\ pc = "config"
    /\ existingAccessKey = <<"F", "a">>

StartsWith(s, lit) == Len(s) >= Len(lit) /\ SubSeq(s, 1, Len(lit)) = lit

\* C7: with at least one record the first record decides and source is
\* "vk_api"; a player URL is used with a leading http: turned into https: and
\* hd=2 / autoplay=0 appended only where the URL holds no hd= / autoplay=;
\* without a player URL the effective key (the record's, else the URL's) gives
\* the hash= template, and without any key the keyless template is used
C7_FirstRecordDecides ==
    SomeRecords =>
        LET rec == vkData.response.items[1]
            key == IF rec.access_key # Undefined THEN rec.access_key.s
                   ELSE existingAccessKey
            player == rec.player.s
            secure == IF StartsWith(player, <<"h", "t", "t", "p", ":">>)
                      THEN <<"h", "t", "t", "p", "s">> \o SubSeq(player, 5, Len(player))
                      ELSE player
            hd == IF Includes(player, <<"h", "d", "=">>) THEN <<>>
                  ELSE IF Includes(player, <<"?">>) THEN <<"&", "h", "d", "=", "2">> ELSE <<"?", "h", "d", "=", "2">>
            autoplay == IF Includes(player, <<"a", "u", "t", "o", "p", "l", "a", "y", "=">>) THEN <<>> ELSE <<"&", "a", "u", "t", "o", "p", "l", "a", "y", "=", "0">>
            base == <<"h", "t", "t", "p", "s", ":", "/", "/", "v", "k", ".", "c", "o", "m", "/", "v", "i", "d", "e", "o", "_", "e", "x", "t", ".", "p", "h", "p", "?", "o", "i", "d", "=">> \o ownerId \o <<"&", "i", "d", "=">> \o videoId
        IN  /\ IsSuccess(resp)
            /\ resp.body.source = "vk_api"
            /\ resp.body.ownerId = ownerId
            /\ resp.body.videoId = videoId
            /\ resp.body.accessKey = key
            /\ resp.body.title = (IF rec.title = Undefined THEN JsNull ELSE rec.title)
            /\ resp.body.embedUrl =
                  IF rec.player # Undefined /\ player # <<>>
                  THEN secure \o hd \o autoplay
                  ELSE IF key # Null
                       THEN base \o <<"&", "h", "a", "s", "h", "=">> \o key \o <<"&", "h", "d", "=", "2", "&", "a", "u", "t", "o", "p", "l", "a", "y", "=", "0">>
                       ELSE base \o <<"&", "h", "d", "=", "2", "&", "a", "u", "t", "o", "p", "l", "a", "y", "=", "0">>
            /\ (rec.player = JsString(<<"h", "t", "t", "p", ":", "/", "/", "v", "k", ".", "c", "o", "m", "/", "p", "l", "a", "y", "e", "r", ".", "h", "t", "m", "l">>)
                  => resp.body.embedUrl = <<"h", "t", "t", "p", "s", ":", "/", "/", "v", "k", ".", "c", "o", "m", "/", "p", "l", "a", "y", "e", "r", ".", "h", "t", "m", "l", "?", "h", "d", "=", "2", "&", "a", "u", "t", "o", "p", "l", "a", "y", "=", "0">>)
            /\ (rec.player = JsString(<<"h", "t", "t", "p", "s", ":", "/", "/", "v", "k", ".", "c", "o", "m", "/", "p", "?", "h", "d", "=", "1", "&", "a", "u", "t", "o", "p", "l", "a", "y", "=", "1">>)
                  => resp.body.embedUrl = <<"h", "t", "t", "p", "s", ":", "/", "/", "v", "k", ".", "c", "o", "m", "/", "p", "?", "h", "d", "=", "1", "&", "a", "u", "t", "o", "p", "l", "a", "y", "=", "1">>)

C7_Witness ==
    /\ SomeRecords
    /\ Len(vkData.response.items) > 1
    /\ vkData.response.items[1].player = JsString(<<"h", "t", "t", "p", ":", "/", "/", "v", "k", ".", "c", "o", "m", "/", "p", "l", "a", "y", "e", "r", ".", "h", "t", "m", "l">>)
    /\ resp.body.embedUrl = <<"h", "t", "t", "p", "s", ":", "/", "/", "v", "k", ".", "c", "o", "m", "/", "p", "l", "a", "y", "e", "r", ".", "h", "t", "m", "l", "?", "h", "d", "=", "2", "&", "a", "u", "t", "o", "p", "l", "a", "y", "=", "0">>
    /\ resp.body.source = "vk_api"

\* C8: a MissingInput or InvalidUrlFormat response is returned without any
\* provider call having been issued, and a ProviderRejected or VideoNotFound
\* response only after one
C8_LocalErrorsBeforeProvider ==
    /\ (IsMissingInput(resp) \/ IsInvalidUrlFormat(resp)) =>
          /\ providerCalls = 0
          /\ \A k \in 1..Len(steps) : steps[k] # "fetch"
    /\ (IsProviderRejected(resp) \/ IsVideoNotFound(resp)) =>
          /\ providerCalls >= 1
          /\ \E k \in 1..Len(steps) : steps[k] = "fetch"

C8_Witness ==
    /\ IsVideoNotFound(resp)
    /\ providerCalls = 1

\* C9: a request whose body is JSON and does not supply videoUrl ends with
\* 400 MissingInput, before any pattern matching, configuration check or
\* provider call
C9_MissingInputAlways400 ==
    (/\ Done
     /\ req.method = "POST"
     /\ req.body.kind # "malformed"
     /\ ~Truthy(req.body.videoUrl))
    => /\ IsMissingInput(resp)
       /\ steps = <<"json">>
       /\ providerCalls = 0

\* C10: the provider is called at most once per request; after an error
\* outcome, an empty outcome or a failed call the handler never looks up again
C10_AtMostOneProviderCall ==
    /\ providerCalls <= 1
    /\ Cardinality({k \in 1..Len(steps) : steps[k] = "fetch"}) <= 1

C10_Witness ==
    /\ Done
    /\ providerCalls = 1
    /\ resp.status = 500
    /\ vkData = Undefined

====
